---------------------------- MODULE Spec2Model ----------------------------
(***************************************************************************)
(* A model of the bundle command (main.go): the identifier sanitizer       *)
(* (makeVarName and its helpers), the content escaper (quoteFile) and the  *)
(* orchestrator (Bundler.ProcessFiles) with its buffered output.           *)
(*                                                                         *)
(* Go strings are modelled as sequences of bytes (0..255) and runes as     *)
(* code points; every conversion between the two goes through the UTF-8    *)
(* decoder and encoder below.                                              *)
(***************************************************************************)
EXTENDS Integers, Sequences, FiniteSets, TLC

VARIABLES
    \* --- makeVarName called on its own
    rawName,     \* the name argument of makeVarName
    rawPrefix,   \* the prefix argument of makeVarName
    varResult,   \* what makeVarName returned: [name, err]; err "none" before the call
    \* --- a ProcessFiles run
    bundler,     \* the Bundler's fields
    files,       \* the arguments of ProcessFiles: a sequence of paths
    disk,        \* the file system: path -> [exists, data]
    pc,          \* the position of the run in ProcessFiles / quoteFile
    idx,         \* the position in files of the file being handled (1-based)
    err,         \* the error ProcessFiles is returning ("nil" when none)
    qerr,        \* the error quoteFile is returning
    bw,          \* the bytes buffered in the bufio.Writer
    dest,        \* the bytes that reached the output destination
    outState,    \* "none" | "open" | "closed" | "stdout"
    defers,      \* the deferred calls of ProcessFiles, in registration order
    inOpen,      \* the positions in files of the input files now open
    pos,         \* the number of bytes already read from the open input file
    \* --- history of the run (read by the properties only)
    wrote,       \* every byte handed to the buffered writer so far
    chunkLog,    \* per file handed to quoteFile, the chunks its reads returned
    openLog,     \* the positions in files on which os.Open was called, in order
    opens,       \* how many times the opening of the declaration block was written
    closes,      \* how many times the closing delimiter was written
    entries      \* how many complete entries were written

nameVars == <<rawName, rawPrefix, varResult>>
runVars  == <<bundler, files, disk, pc, idx, err, qerr, bw, dest, outState,
              defers, inOpen, pos>>
histVars == <<wrote, chunkLog, openLog, opens, closes, entries>>
vars     == <<nameVars, runVars, histVars>>

-----------------------------------------------------------------------------
(* Bounds of the model *)

\* the longest raw name given to makeVarName
MaxNameLen == 3
\* the longest file content given to quoteFile on its own
MaxDataLen == 3
\* the largest number of arguments of ProcessFiles
MaxFiles == 2
\* the size of the bufio.Writer's buffer (4096 in bufio), scaled down so that the
\* buffer fills and is flushed in the middle of a run
BufSize == 48

\* const BUFSIZE = 4096
BUFSIZE == 4096

\* utf8.RuneSelf: bytes below it are single-byte runes
RuneSelf == 128
\* utf8.RuneError, what an invalid byte decodes to
RuneError == 65533

-----------------------------------------------------------------------------
(* Sequences *)

RECURSIVE Concat(_)
Concat(ss) == IF ss = <<>> THEN <<>> ELSE Head(ss) \o Concat(Tail(ss))

Drop(s, n) == SubSeq(s, n + 1, Len(s))
Take(s, n) == SubSeq(s, 1, n)

\* all sequences over S of length at most n
SeqsUpTo(S, n) == UNION {[1..k -> S] : k \in 0..n}

-----------------------------------------------------------------------------
(* UTF-8: utf8.DecodeRune and utf8.EncodeRune, as []rune(s), string(runes),  *)
(* range s and strconv use them                                              *)

InRange(b, lo, hi) == lo <= b /\ b <= hi
IsCont(b) == InRange(b, 128, 191)

\* the accept range of the second byte, by first byte (utf8's first/acceptRanges)
SecondLo(b0) == IF b0 = 224 THEN 160 ELSE IF b0 = 240 THEN 144 ELSE 128
SecondHi(b0) == IF b0 = 237 THEN 159 ELSE IF b0 = 244 THEN 143 ELSE 191

\* the length of the encoding a first byte announces; 0 for an invalid first byte
SeqLen(b0) ==
    IF b0 < 128 THEN 1
    ELSE IF InRange(b0, 194, 223) THEN 2
    ELSE IF InRange(b0, 224, 239) THEN 3
    ELSE IF InRange(b0, 240, 244) THEN 4
    ELSE 0

\* utf8.DecodeRune(s) for non-empty s: [r |-> rune, w |-> width]
DecodeRune(s) ==
    LET b0 == s[1]
        n  == SeqLen(b0)
        bad == [r |-> RuneError, w |-> 1]
    IN  IF n = 1 THEN [r |-> b0, w |-> 1]
        ELSE IF n = 0 \/ Len(s) < n THEN bad
        ELSE IF ~InRange(s[2], SecondLo(b0), SecondHi(b0)) THEN bad
        ELSE IF n = 2 THEN [r |-> (b0 % 32) * 64 + (s[2] % 64), w |-> 2]
        ELSE IF ~IsCont(s[3]) THEN bad
        ELSE IF n = 3
             THEN [r |-> (b0 % 16) * 4096 + (s[2] % 64) * 64 + (s[3] % 64), w |-> 3]
        ELSE IF ~IsCont(s[4]) THEN bad
        ELSE [r |-> (b0 % 8) * 262144 + (s[2] % 64) * 4096 + (s[3] % 64) * 64
                    + (s[4] % 64), w |-> 4]

\* utf8.ValidRune
ValidRune(r) == InRange(r, 0, 55295) \/ InRange(r, 57344, 1114111)

\* utf8.EncodeRune / AppendRune: an invalid rune is encoded as U+FFFD
EncodeRune(r0) ==
    LET r == IF ValidRune(r0) THEN r0 ELSE RuneError
    IN  IF r < 128 THEN <<r>>
        ELSE IF r < 2048 THEN <<192 + (r \div 64), 128 + (r % 64)>>
        ELSE IF r < 65536
             THEN <<224 + (r \div 4096), 128 + ((r \div 64) % 64), 128 + (r % 64)>>
        ELSE <<240 + (r \div 262144), 128 + ((r \div 4096) % 64),
               128 + ((r \div 64) % 64), 128 + (r % 64)>>

\* []rune(s), and the runes "range s" yields: an invalid byte yields U+FFFD
RECURSIVE DecodeRunes(_)
DecodeRunes(s) ==
    IF s = <<>> THEN <<>>
    ELSE LET d == DecodeRune(s) IN <<d.r>> \o DecodeRunes(Drop(s, d.w))

\* string(runes)
RECURSIVE EncodeRunes(_)
EncodeRunes(rs) ==
    IF rs = <<>> THEN <<>> ELSE EncodeRune(Head(rs)) \o EncodeRunes(Tail(rs))

-----------------------------------------------------------------------------
(* The rows of the unicode tables for U+0000..U+00FF, U+0660..U+0669 and     *)
(* U+FFFD, the runes the byte alphabets of the names can encode              *)

\* unicode.IsLetter
unicodeIsLetter(c) ==
    \/ InRange(c, 65, 90) \/ InRange(c, 97, 122)
    \/ c \in {170, 181, 186}
    \/ InRange(c, 192, 214) \/ InRange(c, 216, 246) \/ InRange(c, 248, 255)

\* unicode.IsDigit (category Nd)
unicodeIsDigit(c) == InRange(c, 48, 57) \/ InRange(c, 1632, 1641)

\* unicode.ToTitle
unicodeToTitle(c) ==
    IF InRange(c, 97, 122) THEN c - 32
    ELSE IF c = 181 THEN 924
    ELSE IF InRange(c, 224, 246) \/ InRange(c, 248, 254) THEN c - 32
    ELSE IF c = 255 THEN 376
    ELSE c

-----------------------------------------------------------------------------
(* The identifier sanitizer *)

keywords ==
  << <<98, 114, 101, 97, 107>>,                              \* break
     <<99, 97, 115, 101>>,                                   \* case
     <<99, 104, 97, 110>>,                                   \* chan
     <<99, 111, 110, 115, 116>>,                             \* const
     <<99, 111, 110, 116, 105, 110, 117, 101>>,              \* continue
     <<100, 101, 102, 97, 117, 108, 116>>,                   \* default
     <<100, 101, 102, 101, 114>>,                            \* defer
     <<101, 108, 115, 101>>,                                 \* else
     <<102, 97, 108, 108, 116, 104, 114, 111, 117, 103, 104>>, \* fallthrough
     <<102, 111, 114>>,                                      \* for
     <<102, 117, 110, 99>>,                                  \* func
     <<103, 111>>,                                           \* go
     <<103, 111, 116, 111>>,                                 \* goto
     <<105, 102>>,                                           \* if
     <<105, 109, 112, 111, 114, 116>>,                       \* import
     <<105, 110, 116, 101, 114, 102, 97, 99, 101>>,          \* interface
     <<109, 97, 112>>,                                       \* map
     <<112, 97, 99, 107, 97, 103, 101>>,                     \* package
     <<114, 97, 110, 103, 101>>,                             \* range
     <<114, 101, 116, 117, 114, 110>>,                       \* return
     <<115, 101, 108, 101, 99, 116>>,                        \* select
     <<115, 116, 114, 117, 99, 116>>,                        \* struct
     <<115, 119, 105, 116, 99, 104>>,                        \* switch
     <<116, 121, 112, 101>>,                                 \* type
     <<118, 97, 114>> >>                                     \* var

isLetter(c) == InRange(c, 97, 122) \/ InRange(c, 65, 90) \/ c = 95

isDigit(c) == InRange(c, 48, 57)

\* the loop of isReservedKeyword over keywords[k..]
RECURSIVE keywordFrom(_, _)
keywordFrom(kw, k) ==
    IF k > Len(keywords) THEN FALSE
    ELSE IF kw = keywords[k] THEN TRUE
    ELSE keywordFrom(kw, k + 1)

isReservedKeyword(kw) == keywordFrom(kw, 1)

\* whether the loop body of filterInvalidChars keeps rune c met at index i (0-based)
keepsRune(i, c) ==
    IF c >= RuneSelf
    THEN IF unicodeIsLetter(c) \/ c = 95 \/ unicodeIsDigit(c)
         THEN ~(i = 0 /\ unicodeIsDigit(c))
         ELSE FALSE
    ELSE IF isLetter(c) \/ isDigit(c)
         THEN ~(i = 0 /\ isDigit(c))
         ELSE FALSE

\* the loop of filterInvalidChars from index i (0-based) of buf: the kept runes
RECURSIVE filterFrom(_, _)
filterFrom(buf, i) ==
    IF i >= Len(buf) THEN <<>>
    ELSE (IF keepsRune(i, buf[i + 1]) THEN <<buf[i + 1]>> ELSE <<>>)
         \o filterFrom(buf, i + 1)

filterInvalidChars(id) == EncodeRunes(filterFrom(DecodeRunes(id), 0))

\* the separators of toCamelCase: _ - space : , .
isSeparator(r) == r \in {95, 45, 32, 58, 44, 46}

\* the closure of toCamelCase run over the runes rs, isPrevSep being the closure's
\* variable: the runes strings.Map keeps
RECURSIVE camelRunes(_, _)
camelRunes(rs, isPrevSep) ==
    IF rs = <<>> THEN <<>>
    ELSE LET r == Head(rs) IN
         IF isSeparator(r) THEN camelRunes(Tail(rs), TRUE)
         ELSE IF isPrevSep THEN <<unicodeToTitle(r)>> \o camelRunes(Tail(rs), FALSE)
         ELSE <<r>> \o camelRunes(Tail(rs), FALSE)

\* a faulty variant: isPrevSep is never cleared, so every kept rune is title-cased
toCamelCaseAllTitle(s) ==
    LET rs == SelectSeq(DecodeRunes(s), LAMBDA r : ~isSeparator(r))
    IN  EncodeRunes([k \in 1..Len(rs) |-> unicodeToTitle(rs[k])])

toCamelCase(s) == EncodeRunes(camelRunes(DecodeRunes(s), TRUE))

\* errors.New("reserved keyword")
ErrReserved == "reserved keyword"

\* a faulty variant: the keyword test made before the prefix is applied
makeVarNameCheckFirst(name, prefix) ==
    LET n == filterInvalidChars(toCamelCase(name))
    IN  IF isReservedKeyword(n) THEN [name |-> <<>>, err |-> ErrReserved]
        ELSE [name |-> prefix \o n, err |-> "nil"]

makeVarName(name, prefix) ==
    LET n1 == filterInvalidChars(toCamelCase(name))
        n2 == IF prefix # <<>> THEN prefix \o n1 ELSE n1
    IN  IF isReservedKeyword(n2) THEN [name |-> <<>>, err |-> ErrReserved]
        ELSE [name |-> n2, err |-> "nil"]

\* filepath.Base (Unix: the separator is '/')
RECURSIVE stripTrailingSlashes(_)
stripTrailingSlashes(path) ==
    IF path # <<>> /\ path[Len(path)] = 47
    THEN stripTrailingSlashes(Take(path, Len(path) - 1))
    ELSE path

\* the index of the last '/' of path, 0 when it has none
RECURSIVE lastSlash(_, _)
lastSlash(path, i) ==
    IF i = 0 THEN 0 ELSE IF path[i] = 47 THEN i ELSE lastSlash(path, i - 1)

filepathBase(path) ==
    IF path = <<>> THEN <<46>>
    ELSE LET p1 == stripTrailingSlashes(path)
             p2 == Drop(p1, lastSlash(p1, Len(p1)))
         IN  IF p2 = <<>> THEN <<47>> ELSE p2

\* filepath.Ext: the suffix from the last '.' of the last element, or nothing
RECURSIVE extFrom(_, _)
extFrom(path, i) ==
    IF i = 0 \/ path[i] = 47 THEN <<>>
    ELSE IF path[i] = 46 THEN Drop(path, i - 1)
    ELSE extFrom(path, i - 1)

filepathExt(path) == extFrom(path, Len(path))

stripExtension(path) ==
    LET base == filepathBase(path)
    IN  Take(base, Len(base) - Len(filepathExt(base)))

makeVarNameFromBaseName(path, prefix) == makeVarName(stripExtension(path), prefix)

makeVarNameFromFileName(path, prefix) == makeVarName(filepathBase(path), prefix)

-----------------------------------------------------------------------------
(* strconv.AppendQuote, as quoteFile calls it *)

\* strconv.IsPrint: the Latin-1 fast path, and the rows of its tables for
\* U+0660..U+0669, U+2028, U+4E16, U+FEFF, U+FFFD and U+1F600
IsPrint(r) ==
    IF r <= 255
    THEN InRange(r, 32, 126) \/ (InRange(r, 161, 255) /\ r # 173)
    ELSE InRange(r, 1632, 1641) \/ r \in {19990, 65533, 128512}

\* lowerhex[d]
lowerhex(d) == IF d < 10 THEN 48 + d ELSE 87 + d

\* the n hexadecimal digits of r, most significant first
RECURSIVE hexDigits(_, _)
hexDigits(r, n) ==
    IF n = 0 THEN <<>> ELSE hexDigits(r \div 16, n - 1) \o <<lowerhex(r % 16)>>

\* strconv.appendEscapedRune with quote = '"', ASCIIonly and graphicOnly false
appendEscapedRune(r) ==
    IF r = 34 \/ r = 92 THEN <<92, r>>
    ELSE IF IsPrint(r) THEN EncodeRune(r)
    ELSE IF r = 7 THEN <<92, 97>>
    ELSE IF r = 8 THEN <<92, 98>>
    ELSE IF r = 12 THEN <<92, 102>>
    ELSE IF r = 10 THEN <<92, 110>>
    ELSE IF r = 13 THEN <<92, 114>>
    ELSE IF r = 9 THEN <<92, 116>>
    ELSE IF r = 11 THEN <<92, 118>>
    ELSE IF r < 32 \/ r = 127 THEN <<92, 120>> \o hexDigits(r, 2)
    ELSE IF ~ValidRune(r) THEN <<92, 117>> \o hexDigits(RuneError, 4)
    ELSE IF r < 65536 THEN <<92, 117>> \o hexDigits(r, 4)
    ELSE <<92, 85>> \o hexDigits(r, 8)

\* the loop of strconv's appendQuotedWith over s: what goes between the quotes
RECURSIVE escapeBody(_)
escapeBody(s) ==
    IF s = <<>> THEN <<>>
    ELSE LET d == IF s[1] >= RuneSelf THEN DecodeRune(s) ELSE [r |-> s[1], w |-> 1]
         IN  (IF d.w = 1 /\ d.r = RuneError
              THEN <<92, 120>> \o hexDigits(s[1], 2)
              ELSE appendEscapedRune(d.r))
             \o escapeBody(Drop(s, d.w))

AppendQuote(buf, s) == buf \o <<34>> \o escapeBody(s) \o <<34>>

-----------------------------------------------------------------------------
(* The buffered writer and the output destination *)

\* os.File.Write on the output: a closed file takes no bytes
FileWrite(d, p) == IF outState = "closed" THEN d ELSE d \o p

\* bufio.Writer.Write(p) on st = [buf, dest]
RECURSIVE BufWrite(_, _)
BufWrite(st, p) ==
    IF Len(p) > BufSize - Len(st.buf)
    THEN IF st.buf = <<>>
         THEN [buf |-> <<>>, dest |-> FileWrite(st.dest, p)]
         ELSE LET n == BufSize - Len(st.buf)
              IN  BufWrite([buf |-> <<>>,
                            dest |-> FileWrite(st.dest, st.buf \o Take(p, n))],
                           Drop(p, n))
    ELSE [buf |-> st.buf \o p, dest |-> st.dest]

RECURSIVE WriteAll(_, _)
WriteAll(st, ws) ==
    IF ws = <<>> THEN st ELSE WriteAll(BufWrite(st, Head(ws)), Tail(ws))

\* the Write calls ws made on bw, in order
Emit(ws) ==
    LET st == WriteAll([buf |-> bw, dest |-> dest], ws)
    IN  /\ bw' = st.buf
        /\ dest' = st.dest
        /\ wrote' = wrote \o Concat(ws)

-----------------------------------------------------------------------------
(* The text ProcessFiles writes *)

\* "// Code generated automatically; DO NOT EDIT.\n"
MarkerLine ==
    <<47, 47, 32, 67, 111, 100, 101, 32, 103, 101, 110, 101, 114, 97, 116, 101,
      100, 32, 97, 117, 116, 111, 109, 97, 116, 105, 99, 97, 108, 108, 121, 59,
      32, 68, 79, 32, 78, 79, 84, 32, 69, 68, 73, 84, 46, 10>>
\* "package"
PackageWord == <<112, 97, 99, 107, 97, 103, 101>>
\* "// These "
CommentHead == <<47, 47, 32, 84, 104, 101, 115, 101, 32>>
\* "s are included from files by go generate.\n"
CommentTail ==
    <<115, 32, 97, 114, 101, 32, 105, 110, 99, 108, 117, 100, 101, 100, 32, 102,
      114, 111, 109, 32, 102, 105, 108, 101, 115, 32, 98, 121, 32, 103, 111, 32,
      103, 101, 110, 101, 114, 97, 116, 101, 46, 10>>
\* "\n\t// file: "
FileCommentHead == <<10, 9, 47, 47, 32, 102, 105, 108, 101, 58, 32>>
\* "var" and "const"
DeclVar == <<118, 97, 114>>
DeclConst == <<99, 111, 110, 115, 116>>

\* the four Fprintln calls of writeHeaderWithPackage
writeHeaderWithPackage(name) ==
    << MarkerLine, <<10>>, PackageWord \o <<32>> \o name \o <<10>>, <<10>> >>

\* the two Fprintf calls that open the declaration block
blockOpening(decl) ==
    << CommentHead \o decl \o CommentTail, decl \o <<32, 40>> >>

\* a faulty variant: the "// file:" comment is not written
entryOpeningNoComment(fn, varName) ==
    << <<10>>, <<9>> \o varName \o <<32, 61, 32>> >>

\* the two Fprintf calls made before quoteFile
entryOpening(fn, varName) ==
    << FileCommentHead \o fn \o <<10>>, <<9>> \o varName \o <<32, 61, 32>> >>

\* a faulty variant: the chunk's own quotes are written too
stripQuotesNot(quoted) == quoted

\* quoted[1 : len(quoted)-1]
stripQuotes(quoted) == SubSeq(quoted, 2, Len(quoted) - 1)

\* a faulty variant: the chunk is written as it was read
quoteChunkRaw(s) == s

\* what quoteFile writes for one chunk: the quoted chunk less its own quotes
quoteChunk(s) == stripQuotes(AppendQuote(<<>>, s))

-----------------------------------------------------------------------------
(* Bundler *)

NewBundler(outFile, pkgName, prefix, useConst, varNameFunc) ==
    [outFile     |-> outFile,
     prefix      |-> prefix,
     pkgName     |-> pkgName,
     makeVarName |-> IF varNameFunc = "nil" THEN "BaseName" ELSE varNameFunc,
     decl        |-> IF useConst THEN DeclConst ELSE DeclVar]

\* bundler.makeVarName(fn, prefix)
bundlerMakeVarName(fn) ==
    IF bundler.makeVarName = "BaseName"
    THEN makeVarNameFromBaseName(fn, bundler.prefix)
    ELSE makeVarNameFromFileName(fn, bundler.prefix)

\* a faulty variant: the flush deferred before the close, so that it runs after it
processFilesDefersSwapped(outFile) ==
    <<"bw.Flush">> \o (IF outFile # <<>> THEN <<"out.Close">> ELSE <<>>)

\* the defer statements of ProcessFiles, in the order they are executed
processFilesDefers(outFile) ==
    (IF outFile # <<>> THEN <<"out.Close">> ELSE <<>>) \o <<"bw.Flush">>

-----------------------------------------------------------------------------
(* makeVarName called on its own, on every name and prefix over small alphabets *)

\* the bytes of raw names: g o 1 - ! and the bytes of U+00E9, U+00E1, U+0661, U+0669
NameBytes == {103, 111, 49, 45, 33, 195, 169, 217, 161}
\* the prefixes: none, "g", "1", "go"
Prefixes == {<<>>, <<103>>, <<49>>, <<103, 111>>}

NoResult == [name |-> <<>>, err |-> "none"]

\* the values of the variables of a ProcessFiles run while none is under way
IdleRun ==
    /\ bundler = [outFile |-> <<>>, pkgName |-> <<>>, prefix |-> <<>>,
                  decl |-> <<>>, makeVarName |-> "BaseName"]
    /\ files = <<>>
    /\ disk = <<>>
    /\ pc = "idle"
    /\ idx = 0
    /\ err = "nil"
    /\ qerr = "nil"
    /\ bw = <<>>
    /\ dest = <<>>
    /\ outState = "none"
    /\ defers = <<>>
    /\ inOpen = {}
    /\ pos = 0

EmptyHistory ==
    /\ wrote = <<>>
    /\ chunkLog = <<>>
    /\ openLog = <<>>
    /\ opens = 0
    /\ closes = 0
    /\ entries = 0

InitName ==
    /\ rawName \in SeqsUpTo(NameBytes, MaxNameLen)
    /\ rawPrefix \in Prefixes
    /\ varResult = NoResult
    /\ IdleRun
    /\ EmptyHistory

CallMakeVarName ==
    /\ varResult = NoResult
    /\ varResult' = makeVarName(rawName, rawPrefix)
    /\ UNCHANGED <<rawName, rawPrefix, runVars, histVars>>

NextName == CallMakeVarName

SpecName == InitName /\ [][NextName]_vars

-----------------------------------------------------------------------------
(* Properties of makeVarName *)

KeywordSet == {keywords[k] : k \in 1..Len(keywords)}

\* s is well-formed UTF-8 whose runes are letters, digits or underscores, the first
\* one no digit, and s is not empty
IdentifierShape(s) ==
    LET rs == DecodeRunes(s) IN
    /\ s # <<>>
    /\ EncodeRunes(rs) = s
    /\ \A k \in 1..Len(rs) : unicodeIsLetter(rs[k]) \/ rs[k] = 95 \/ unicodeIsDigit(rs[k])
    /\ ~unicodeIsDigit(rs[1])

ValidIdentifier(s) == IdentifierShape(s) /\ s \notin KeywordSet

Returned == varResult.err = "nil"

\* C3: whenever makeVarName returns without error, for a (non-empty) raw file name
\* and a prefix that is empty or a valid identifier, the returned identifier is
\* non-empty, starts with a letter or underscore, holds only letters, digits and
\* underscores, and is no keyword.
C3_ReturnedIdentifierValid ==
    (Returned /\ rawName # <<>> /\ (rawPrefix = <<>> \/ ValidIdentifier(rawPrefix)))
        => ValidIdentifier(varResult.name)

\* a base that is already a valid identifier and holds no separator
PlainBase(s) == ValidIdentifier(s) /\ \A k \in 1..Len(s) : ~isSeparator(s[k])

\* s with its first rune mapped to title case
TitleFirst(s) ==
    LET d == DecodeRune(s) IN EncodeRune(unicodeToTitle(d.r)) \o Drop(s, d.w)

\* C4 as stated: a base that is already a valid identifier without separators comes
\* back unchanged, after the prefix.
C4_PlainBaseUnchanged ==
    (varResult # NoResult /\ PlainBase(rawName))
        => varResult = [name |-> rawPrefix \o rawName, err |-> "nil"]

\* C4 as amended: a base that is already a valid identifier without separators comes
\* back, after the prefix, with its first character mapped to title case and the
\* rest unchanged, and without error.
C4_PlainBaseTitled ==
    (varResult # NoResult /\ PlainBase(rawName))
        => varResult = [name |-> rawPrefix \o TitleFirst(rawName), err |-> "nil"]

\* "og" with prefix "g" came back as "gOg"
C4_Witness ==
    /\ rawName = <<111, 103>>
    /\ rawPrefix = <<103>>
    /\ varResult = [name |-> <<103, 79, 103>>, err |-> "nil"]

\* C5: makeVarName returns an error exactly when the final name (the camel-cased,
\* filtered name after the prefix) is one of the 25 keywords, and otherwise returns
\* that final name and no error.
C5_ErrorIffKeyword ==
    /\ Cardinality(KeywordSet) = 25
    /\ varResult # NoResult =>
          LET final == rawPrefix \o filterInvalidChars(toCamelCase(rawName))
          IN  IF final \in KeywordSet
              THEN varResult.err = ErrReserved
              ELSE varResult = [name |-> final, err |-> "nil"]

\* "1o" with prefix "g" gives the final name "go" and is rejected
C5_Witness ==
    /\ rawName = <<49, 111>>
    /\ rawPrefix = <<103>>
    /\ varResult.err = ErrReserved

-----------------------------------------------------------------------------
(* A ProcessFiles run *)

\* the paths "a.go", "d/e.js", "1go.c" and "m"
PathA == <<97, 46, 103, 111>>
PathE == <<100, 47, 101, 46, 106, 115>>
PathK == <<49, 103, 111, 46, 99>>
PathM == <<109>>
Paths == {PathA, PathE, PathK, PathM}

\* the files of a run: a.go holds a quote and a newline, d/e.js is empty, 1go.c
\* holds one two-byte character, m does not exist
RunDisk ==
    (PathA :> [exists |-> TRUE, data |-> <<34, 10>>]) @@
    (PathE :> [exists |-> TRUE, data |-> <<>>]) @@
    (PathK :> [exists |-> TRUE, data |-> <<195, 169>>]) @@
    (PathM :> [exists |-> FALSE, data |-> <<>>])

\* the output files, package names and prefixes of a run: none, or "o", "p", "g"
OutFiles == {<<>>, <<111>>}
PkgNames == {<<>>, <<112>>}
RunPrefixes == {<<>>, <<103>>}
\* the package name build.ImportDir finds: "main"
FoundPkgNames == {<<109, 97, 105, 110>>}

NoNameCall ==
    /\ rawName = <<>>
    /\ rawPrefix = <<>>
    /\ varResult = NoResult

Init ==
    /\ NoNameCall
    /\ \E o \in OutFiles, p \in PkgNames, x \in RunPrefixes, c \in BOOLEAN,
          f \in {"nil", "BaseName", "FileName"} :
          bundler = NewBundler(o, p, x, c, f)
    /\ files \in SeqsUpTo(Paths, MaxFiles)
    /\ disk = RunDisk
    /\ pc = "start"
    /\ idx = 0
    /\ err = "nil"
    /\ qerr = "nil"
    /\ bw = <<>>
    /\ dest = <<>>
    /\ outState = "none"
    /\ defers = <<>>
    /\ inOpen = {}
    /\ pos = 0
    /\ EmptyHistory

\* os.Create fails: ProcessFiles returns before anything is deferred
CreateFail ==
    /\ pc = "start"
    /\ bundler.outFile # <<>>
    /\ err' = "create"
    /\ pc' = "done"
    /\ UNCHANGED <<nameVars, bundler, files, disk, idx, qerr, bw, dest, outState,
                   defers, inOpen, pos, histVars>>

\* os.Create succeeds, or the output is os.Stdout; bufio.NewWriter; the defers
OpenOutput ==
    /\ pc = "start"
    /\ outState' = IF bundler.outFile # <<>> THEN "open" ELSE "stdout"
    /\ defers' = processFilesDefers(bundler.outFile)
    /\ pc' = "header"
    /\ UNCHANGED <<nameVars, bundler, files, disk, idx, err, qerr, bw, dest,
                   inOpen, pos, histVars>>

\* the header with the package name pkgName, then the opening of the block
WriteHeaderAndOpening(pkgName) ==
    /\ Emit(writeHeaderWithPackage(pkgName) \o blockOpening(bundler.decl))
    /\ opens' = opens + 1
    /\ idx' = 1
    /\ pc' = "loop"
    /\ UNCHANGED <<nameVars, bundler, files, disk, err, qerr, outState, defers,
                   inOpen, pos, chunkLog, openLog, closes, entries>>

HeaderExplicit ==
    /\ pc = "header"
    /\ bundler.pkgName # <<>>
    /\ WriteHeaderAndOpening(bundler.pkgName)

\* writeHeader: getPkgName finds the package of the working directory
HeaderResolved ==
    /\ pc = "header"
    /\ bundler.pkgName = <<>>
    /\ \E name \in FoundPkgNames : WriteHeaderAndOpening(name)

\* writeHeader: getPkgName fails
HeaderResolveFail ==
    /\ pc = "header"
    /\ bundler.pkgName = <<>>
    /\ err' = "package"
    /\ pc' = "return"
    /\ UNCHANGED <<nameVars, bundler, files, disk, idx, qerr, bw, dest, outState,
                   defers, inOpen, pos, histVars>>

\* the loop is over: the closing delimiter, return nil
LoopEnd ==
    /\ pc = "loop"
    /\ idx > Len(files)
    /\ Emit(<< <<41, 10>> >>)
    /\ closes' = closes + 1
    /\ err' = "nil"
    /\ pc' = "return"
    /\ UNCHANGED <<nameVars, bundler, files, disk, idx, qerr, outState, defers,
                   inOpen, pos, chunkLog, openLog, opens, entries>>

\* a faulty variant: a rejected name skips the file instead of ending the run
LoopIdentFailSkips ==
    /\ pc = "loop"
    /\ idx <= Len(files)
    /\ bundlerMakeVarName(files[idx]).err # "nil"
    /\ idx' = idx + 1
    /\ UNCHANGED <<nameVars, bundler, files, disk, pc, err, qerr, bw, dest,
                   outState, defers, inOpen, pos, histVars>>

\* bundler.makeVarName rejects the file's name
LoopIdentFail ==
    /\ pc = "loop"
    /\ idx <= Len(files)
    /\ bundlerMakeVarName(files[idx]).err # "nil"
    /\ err' = bundlerMakeVarName(files[idx]).err
    /\ pc' = "return"
    /\ UNCHANGED <<nameVars, bundler, files, disk, idx, qerr, bw, dest, outState,
                   defers, inOpen, pos, histVars>>

\* the name is accepted: the file comment and "name = ", then quoteFile is called
LoopEntry ==
    /\ pc = "loop"
    /\ idx <= Len(files)
    /\ bundlerMakeVarName(files[idx]).err = "nil"
    /\ Emit(entryOpening(files[idx], bundlerMakeVarName(files[idx]).name))
    /\ pc' = "qopen"
    /\ UNCHANGED <<nameVars, bundler, files, disk, idx, err, qerr, outState,
                   defers, inOpen, pos, chunkLog, openLog, opens, closes, entries>>

\* quoteFile: os.Open fails, quoteFile returns the error
QuoteOpenFail ==
    /\ pc = "qopen"
    /\ ~disk[files[idx]].exists
    /\ openLog' = Append(openLog, idx)
    /\ qerr' = "open"
    /\ pc' = "qdone"
    /\ UNCHANGED <<nameVars, bundler, files, disk, idx, err, bw, dest, outState,
                   defers, inOpen, pos, wrote, chunkLog, opens, closes, entries>>

\* quoteFile: os.Open succeeds, in.Close is deferred, the opening quote is written
QuoteOpen ==
    /\ pc = "qopen"
    /\ disk[files[idx]].exists
    /\ openLog' = Append(openLog, idx)
    /\ inOpen' = inOpen \cup {idx}
    /\ pos' = 0
    /\ chunkLog' = Append(chunkLog, <<>>)
    /\ Emit(<< <<34>> >>)
    /\ pc' = "qread"
    /\ UNCHANGED <<nameVars, bundler, files, disk, idx, err, qerr, outState,
                   defers, opens, closes, entries>>

\* quoteFile: in.Read returns n > 0 bytes, at most BUFSIZE; they are quoted and
\* written less their quotes
QuoteRead ==
    /\ pc = "qread"
    /\ LET data == disk[files[idx]].data IN
       \E n \in 1..(Len(data) - pos) :
          /\ n <= BUFSIZE
          /\ LET chunk == SubSeq(data, pos + 1, pos + n) IN
             /\ Emit(<< quoteChunk(chunk) >>)
             /\ chunkLog' = [chunkLog EXCEPT ![Len(chunkLog)] = Append(@, chunk)]
          /\ pos' = pos + n
    /\ UNCHANGED <<nameVars, bundler, files, disk, pc, idx, err, qerr, outState,
                   defers, inOpen, openLog, opens, closes, entries>>

\* quoteFile: in.Read returns 0, io.EOF: the closing quote, return nil
QuoteEOF ==
    /\ pc = "qread"
    /\ pos = Len(disk[files[idx]].data)
    /\ Emit(<< <<34>> >>)
    /\ qerr' = "nil"
    /\ pc' = "qret"
    /\ UNCHANGED <<nameVars, bundler, files, disk, idx, err, outState, defers,
                   inOpen, pos, chunkLog, openLog, opens, closes, entries>>

\* quoteFile: in.Read returns an error that is not io.EOF, which is returned
QuoteReadFail ==
    /\ pc = "qread"
    /\ qerr' = "read"
    /\ pc' = "qret"
    /\ UNCHANGED <<nameVars, bundler, files, disk, idx, err, bw, dest, outState,
                   defers, inOpen, pos, histVars>>

\* a faulty variant: the input file is closed only when quoteFile returns nil
quoteFileDeferredOnSuccess(open, h) == IF qerr = "nil" THEN open \ {h} ELSE open

\* the deferred in.Close() of quoteFile, on the open files
quoteFileDeferred(open, h) == open \ {h}

\* quoteFile returns: its deferred call runs
QuoteReturn ==
    /\ pc = "qret"
    /\ inOpen' = quoteFileDeferred(inOpen, idx)
    /\ pc' = "qdone"
    /\ UNCHANGED <<nameVars, bundler, files, disk, idx, err, qerr, bw, dest,
                   outState, defers, pos, histVars>>

\* a faulty variant: the block is closed before the error of quoteFile is returned
AfterQuoteFailCloses ==
    /\ pc = "qdone"
    /\ qerr # "nil"
    /\ Emit(<< <<41, 10>> >>)
    /\ closes' = closes + 1
    /\ err' = qerr
    /\ pc' = "return"
    /\ UNCHANGED <<nameVars, bundler, files, disk, idx, qerr, outState, defers,
                   inOpen, pos, chunkLog, openLog, opens, entries>>

\* back in ProcessFiles: quoteFile returned an error, which is returned
AfterQuoteFail ==
    /\ pc = "qdone"
    /\ qerr # "nil"
    /\ err' = qerr
    /\ pc' = "return"
    /\ UNCHANGED <<nameVars, bundler, files, disk, idx, qerr, bw, dest, outState,
                   defers, inOpen, pos, histVars>>

\* back in ProcessFiles: the entry's line is ended, on to the next file
AfterQuote ==
    /\ pc = "qdone"
    /\ qerr = "nil"
    /\ Emit(<< <<10>> >>)
    /\ entries' = entries + 1
    /\ idx' = idx + 1
    /\ pc' = "loop"
    /\ UNCHANGED <<nameVars, bundler, files, disk, err, qerr, outState, defers,
                   inOpen, pos, chunkLog, openLog, opens, closes>>

\* ProcessFiles returns: the last deferred call, bw.Flush(), runs
DeferredFlush ==
    /\ pc = "return"
    /\ defers # <<>>
    /\ defers[Len(defers)] = "bw.Flush"
    /\ dest' = FileWrite(dest, bw)
    /\ bw' = IF outState = "closed" THEN bw ELSE <<>>
    /\ defers' = Take(defers, Len(defers) - 1)
    /\ UNCHANGED <<nameVars, bundler, files, disk, pc, idx, err, qerr, outState,
                   inOpen, pos, histVars>>

\* ProcessFiles returns: the last deferred call, out.Close(), runs
DeferredClose ==
    /\ pc = "return"
    /\ defers # <<>>
    /\ defers[Len(defers)] = "out.Close"
    /\ outState' = "closed"
    /\ defers' = Take(defers, Len(defers) - 1)
    /\ UNCHANGED <<nameVars, bundler, files, disk, pc, idx, err, qerr, bw, dest,
                   inOpen, pos, histVars>>

\* every deferred call has run: ProcessFiles has returned
Return ==
    /\ pc = "return"
    /\ defers = <<>>
    /\ pc' = "done"
    /\ UNCHANGED <<nameVars, bundler, files, disk, idx, err, qerr, bw, dest,
                   outState, defers, inOpen, pos, histVars>>

Next ==
    \/ CreateFail
    \/ OpenOutput
    \/ HeaderExplicit
    \/ HeaderResolved
    \/ HeaderResolveFail
    \/ LoopEnd
    \/ LoopIdentFail
    \/ LoopEntry
    \/ QuoteOpenFail
    \/ QuoteOpen
    \/ QuoteRead
    \/ QuoteEOF
    \/ QuoteReadFail
    \/ QuoteReturn
    \/ AfterQuoteFail
    \/ AfterQuote
    \/ DeferredFlush
    \/ DeferredClose
    \/ Return

Spec == Init /\ [][Next]_vars

-----------------------------------------------------------------------------
(* quoteFile called on its own, on every content over a small byte alphabet *)

\* NUL, newline, quote, backslash, "a", and the bytes of U+0085, U+00A9, U+00C5,
\* U+00E9, which alone are invalid UTF-8
QuoteBytes == {0, 10, 34, 92, 97, 194, 195, 133, 169}

\* further contents: the control characters BEL, TAB, CR and 0x01; DEL; the byte
\* 0xFF; U+4E16; U+2028; U+FEFF; U+FFFD; U+1F600; the encoding of a surrogate; a
\* two-byte overlong encoding
QuoteSamples ==
    { <<7, 9, 13, 1>>, <<127>>, <<255>>, <<228, 184, 150>>, <<226, 128, 168>>,
      <<239, 187, 191>>, <<239, 191, 189>>, <<240, 159, 152, 128>>,
      <<237, 160, 128>>, <<192, 128>> }

InitQuote ==
    /\ NoNameCall
    /\ bundler = NewBundler(<<>>, <<112>>, <<>>, FALSE, "nil")
    /\ files = <<PathA>>
    /\ \E e \in BOOLEAN, d \in SeqsUpTo(QuoteBytes, MaxDataLen) \cup QuoteSamples :
          disk = (PathA :> [exists |-> e, data |-> d])
    /\ pc = "qopen"
    /\ idx = 1
    /\ err = "nil"
    /\ qerr = "nil"
    /\ bw = <<>>
    /\ dest = <<>>
    /\ outState = "stdout"
    /\ defers = <<>>
    /\ inOpen = {}
    /\ pos = 0
    /\ EmptyHistory

NextQuote ==
    \/ QuoteOpenFail
    \/ QuoteOpen
    \/ QuoteRead
    \/ QuoteEOF
    \/ QuoteReadFail
    \/ QuoteReturn

SpecQuote == InitQuote /\ [][NextQuote]_vars

-----------------------------------------------------------------------------
(* The Go grammar of interpreted string literals, read back: what the compiler *)
(* makes of the literal the tool emitted                                        *)

hexVal(b) ==
    IF InRange(b, 48, 57) THEN b - 48
    ELSE IF InRange(b, 97, 102) THEN b - 87
    ELSE IF InRange(b, 65, 70) THEN b - 55
    ELSE -1

\* the value of the digits ds in the given base, -1 when one of them is no digit
RECURSIVE digitsValue(_, _)
digitsValue(ds, base) ==
    IF ds = <<>> THEN 0
    ELSE LET hi == digitsValue(Take(ds, Len(ds) - 1), base)
             lo == hexVal(ds[Len(ds)])
         IN  IF hi < 0 \/ lo < 0 \/ lo >= base THEN -1 ELSE hi * base + lo

NoLiteral == [ok |-> FALSE, bytes |-> <<>>]

\* the first element of the literal body s: [ok, out, n], n the bytes it takes
literalElement(s) ==
    LET bad == [ok |-> FALSE, out |-> <<>>, n |-> 1]
        c == s[1]
    IN  IF c = 34 \/ c = 10 \/ c = 0 THEN bad
        ELSE IF c = 92 THEN
            IF Len(s) < 2 THEN bad
            ELSE LET e == s[2]
                     num(k, base) == IF Len(s) < 2 + k THEN -1
                                     ELSE digitsValue(SubSeq(s, 3, 2 + k), base)
                 IN  IF e = 97 THEN [ok |-> TRUE, out |-> <<7>>, n |-> 2]
                     ELSE IF e = 98 THEN [ok |-> TRUE, out |-> <<8>>, n |-> 2]
                     ELSE IF e = 102 THEN [ok |-> TRUE, out |-> <<12>>, n |-> 2]
                     ELSE IF e = 110 THEN [ok |-> TRUE, out |-> <<10>>, n |-> 2]
                     ELSE IF e = 114 THEN [ok |-> TRUE, out |-> <<13>>, n |-> 2]
                     ELSE IF e = 116 THEN [ok |-> TRUE, out |-> <<9>>, n |-> 2]
                     ELSE IF e = 118 THEN [ok |-> TRUE, out |-> <<11>>, n |-> 2]
                     ELSE IF e = 92 \/ e = 34 THEN [ok |-> TRUE, out |-> <<e>>, n |-> 2]
                     ELSE IF e = 120 THEN
                         IF num(2, 16) < 0 THEN bad
                         ELSE [ok |-> TRUE, out |-> <<num(2, 16)>>, n |-> 4]
                     ELSE IF e = 117 THEN
                         IF num(4, 16) < 0 \/ ~ValidRune(num(4, 16)) THEN bad
                         ELSE [ok |-> TRUE, out |-> EncodeRune(num(4, 16)), n |-> 6]
                     ELSE IF e = 85 THEN
                         IF num(8, 16) < 0 \/ ~ValidRune(num(8, 16)) THEN bad
                         ELSE [ok |-> TRUE, out |-> EncodeRune(num(8, 16)), n |-> 10]
                     ELSE IF InRange(e, 48, 55) THEN
                         LET v == IF Len(s) < 4 THEN -1
                                  ELSE digitsValue(SubSeq(s, 2, 4), 8)
                         IN  IF v < 0 \/ v > 255 THEN bad
                             ELSE [ok |-> TRUE, out |-> <<v>>, n |-> 4]
                     ELSE bad
        ELSE IF c < 128 THEN [ok |-> TRUE, out |-> <<c>>, n |-> 1]
        ELSE LET d == DecodeRune(s)
             IN  IF (d.r = RuneError /\ d.w = 1) \/ d.r = 65279 THEN bad
                 ELSE [ok |-> TRUE, out |-> Take(s, d.w), n |-> d.w]

\* the bytes the body of an interpreted string literal denotes
RECURSIVE literalBody(_)
literalBody(s) ==
    IF s = <<>> THEN [ok |-> TRUE, bytes |-> <<>>]
    ELSE LET el == literalElement(s)
         IN  IF ~el.ok THEN NoLiteral
             ELSE LET rest == literalBody(Drop(s, el.n))
                  IN  IF ~rest.ok THEN NoLiteral
                      ELSE [ok |-> TRUE, bytes |-> el.out \o rest.bytes]

\* the bytes an interpreted string literal, quotes included, denotes
GoUnquote(lit) ==
    IF Len(lit) < 2 \/ lit[1] # 34 \/ lit[Len(lit)] # 34 THEN NoLiteral
    ELSE literalBody(SubSeq(lit, 2, Len(lit) - 1))

-----------------------------------------------------------------------------
(* Properties of quoteFile, under SpecQuote *)

\* quoteFile has returned nil
QuoteSucceeded == pc = "qdone" /\ qerr = "nil"

\* the escaped bodies of the chunks cs, one after the other
RECURSIVE escapedChunks(_)
escapedChunks(cs) ==
    IF cs = <<>> THEN <<>> ELSE escapeBody(Head(cs)) \o escapedChunks(Tail(cs))

\* C2: whatever the bytes of the file and however the reads split them into chunks,
\* the literal quoteFile emitted, read back by the Go string-literal grammar, is
\* the file's bytes.
C2_RoundTrip ==
    QuoteSucceeded =>
        GoUnquote(wrote) = [ok |-> TRUE, bytes |-> disk[files[idx]].data]

\* a two-byte character split between two reads, after a quote
C2_Witness ==
    /\ QuoteSucceeded
    /\ disk[files[idx]].data = <<34, 195, 169>>
    /\ chunkLog = << << <<34, 195>>, <<169>> >> >>

\* C8: for a file read without error, in zero, one or many chunks, quoteFile writes
\* one opening quote, the escaped bodies of the chunks without the chunks' own
\* quotes, and one closing quote; for a zero-byte file, exactly "".
C8_QuotesOncePerFile ==
    QuoteSucceeded =>
        /\ Concat(chunkLog[1]) = disk[files[idx]].data
        /\ wrote = <<34>> \o escapedChunks(chunkLog[1]) \o <<34>>
        /\ disk[files[idx]].data = <<>> => wrote = <<34, 34>>

\* a file read in three chunks
C8_Witness ==
    /\ QuoteSucceeded
    /\ Len(chunkLog[1]) = 3
    /\ wrote = <<34, 97, 92, 110, 92, 34, 34>>

-----------------------------------------------------------------------------
(* Properties of ProcessFiles, under Spec *)

Finished == pc = "done"
Succeeded == Finished /\ err = "nil"
\* the run ended on an error of the input file at position idx
FileFailed == Finished /\ err \in {ErrReserved, "open", "read"}

\* the lines before the entries, for the package name pkgName
PreambleText(pkgName) ==
    MarkerLine \o <<10>>
    \o PackageWord \o <<32>> \o pkgName \o <<10>>
    \o <<10>>
    \o CommentHead \o bundler.decl \o CommentTail
    \o bundler.decl \o <<32, 40>>

\* the "// file:" line of the file at position k and the start of its entry line
EntryHeadText(k) ==
    <<10, 9, 47, 47, 32, 102, 105, 108, 101, 58, 32>> \o files[k] \o <<10>>
    \o <<9>> \o bundlerMakeVarName(files[k]).name \o <<32, 61, 32>>

\* the complete entry of the file at position k, its literal made of the chunks
\* that were read from it
EntryText(k) ==
    EntryHeadText(k) \o <<34>> \o escapedChunks(chunkLog[k]) \o <<34, 10>>

\* the complete entries of the files at positions 1..n, in that order
EntriesText(n) == Concat([k \in 1..n |-> EntryText(k)])

\* the package names the header may carry
HeaderNames == IF bundler.pkgName # <<>> THEN {bundler.pkgName} ELSE FoundPkgNames

\* C1: with an explicit package name, a successful run writes exactly the marker
\* line, a blank line, the package clause, a blank line, the comment, "<decl> (",
\* one "// file:" line and one "<Identifier> = <literal>" line per input file in
\* input order, each literal holding the whole file, then ")"; nothing between
\* "(" and ")" when there is no input file.
C1_OutputMatchesTemplate ==
    (Succeeded /\ bundler.pkgName # <<>>) =>
        /\ Len(chunkLog) = Len(files)
        /\ \A k \in 1..Len(files) : Concat(chunkLog[k]) = disk[files[k]].data
        /\ dest = PreambleText(bundler.pkgName) \o EntriesText(Len(files)) \o <<41, 10>>
        /\ files = <<>> => dest = PreambleText(bundler.pkgName) \o <<41, 10>>

\* a successful run over a.go and the empty d/e.js, into a file
C1_Witness ==
    /\ Succeeded
    /\ bundler.pkgName # <<>>
    /\ bundler.outFile # <<>>
    /\ files = <<PathA, PathE>>
    /\ chunkLog = << << <<34>>, <<10>> >>, <<>> >>

\* C6: when the file at position idx is the first to fail, ProcessFiles returns
\* its error, os.Open was called on no later file, and the output holds the
\* complete entries of the files before it, in input order, followed by nothing
\* but what was written of the failing file's own entry; and a run returns nil
\* only if no file's name is rejected and every file can be opened.
C6_FailFast ==
    /\ FileFailed =>
        /\ idx \in 1..Len(files)
        /\ err = ErrReserved => bundlerMakeVarName(files[idx]).err = ErrReserved
        /\ err = "open" => ~disk[files[idx]].exists
        /\ err = "read" => disk[files[idx]].exists
        /\ openLog = [k \in 1..(IF err = ErrReserved THEN idx - 1 ELSE idx) |-> k]
        /\ entries = idx - 1
        /\ \E name \in HeaderNames :
              dest = PreambleText(name) \o EntriesText(idx - 1)
                     \o (IF err = ErrReserved THEN <<>>
                         ELSE IF err = "open" THEN EntryHeadText(idx)
                         ELSE EntryHeadText(idx) \o <<34>>
                              \o escapedChunks(chunkLog[idx]))
    /\ Succeeded =>
        \A k \in 1..Len(files) :
            bundlerMakeVarName(files[k]).err = "nil" /\ disk[files[k]].exists

\* the second of two files is rejected after the first one's entry was written
C6_Witness ==
    /\ FileFailed
    /\ err = ErrReserved
    /\ files = <<PathA, PathK>>
    /\ idx = 2
    /\ entries = 1

\* C7: once the output destination was opened, whatever the exit path, every byte
\* written to the buffered writer has reached the destination by the time the
\* destination is closed and by the time ProcessFiles has returned.
C7_FlushedBeforeClose ==
    (outState # "none" /\ (outState = "closed" \/ Finished)) =>
        (bw = <<>> /\ dest = wrote)

\* a run that ended on a read error after the buffer had been flushed in between
C7_Witness ==
    /\ Finished
    /\ err = "read"
    /\ outState = "closed"
    /\ Len(dest) > 2 * BufSize
    /\ entries = 1

\* C9 as stated, on the runs that wrote the opening of the block: success or not,
\* the opening and the closing delimiter are each written exactly once.
C9_OpenedAndClosedOnce ==
    (Finished /\ opens >= 1) => (opens = 1 /\ closes = 1)

\* C9 as amended: the opening is written at most once and the closing delimiter
\* at most once; the closing delimiter is written only on success, after the last
\* entry and as the last thing written; a successful run writes each exactly once,
\* a failed run never writes the closing delimiter.
C9_ClosedOnceOnSuccessOnly ==
    /\ opens <= 1
    /\ closes <= 1
    /\ closes = 1 =>
        /\ opens = 1
        /\ err = "nil"
        /\ pc \in {"return", "done"}
        /\ entries = Len(files)
        /\ Len(wrote) >= 2
        /\ SubSeq(wrote, Len(wrote) - 1, Len(wrote)) = <<41, 10>>
    /\ Succeeded => (opens = 1 /\ closes = 1)
    /\ (Finished /\ err # "nil") => closes = 0

\* a run that ended on a missing second file: opened once, never closed
C9_Witness ==
    /\ Finished
    /\ err = "open"
    /\ idx = 2
    /\ opens = 1
    /\ closes = 0

\* C10: at most one input file is open at any time, none is open outside quoteFile
\* (so each is closed before the next is opened and before ProcessFiles returns),
\* also when reading it failed.
C10_OneInputOpen ==
    /\ Cardinality(inOpen) <= 1
    /\ inOpen # {} => inOpen = {idx}
    /\ pc \notin {"qread", "qret"} => inOpen = {}

\* quoteFile has just returned a read error for the second file, which is closed
C10_Witness ==
    /\ pc = "qdone"
    /\ qerr = "read"
    /\ openLog = <<1, 2>>
    /\ inOpen = {}

=============================================================================
